---- MODULE Spec2Model ----
(***************************************************************************)
(* A model of tronpy's async client (src/tronpy/async_tron.py): the        *)
(* transaction lifecycle (AsyncTransactionBuilder, AsyncTransaction), the  *)
(* confirmation poll loop (AsyncTransactionRet.wait, result), the shared   *)
(* error classifier (_handle_api_error) and the block scanner              *)
(* (scan_block_transfers, scan_recent_transfers, parse_usdt_transfer).     *)
(*                                                                         *)
(* Python dicts and lists are objects on a heap: rawd holds the raw_data   *)
(* dicts, sigl the signature lists, and a transaction holds references,    *)
(* so that two transactions can share one dict or one list as they do in   *)
(* the program.  The node is the environment: every answer it can give is  *)
(* drawn with \E from a small set.  Time is the wall clock in              *)
(* milliseconds, advanced by Tick.  Python assert statements are taken as  *)
(* active (the interpreter's default mode).                                *)
(***************************************************************************)
EXTENDS Integers, Sequences, FiniteSets, TLC

\* ------------------------------------------------------------------ bounds

\* one step of the wall clock, in ms
TickMs == 30000
\* the clock stops advancing here
MaxClock == 90000
\* signatures one list may hold
MaxSigs == 2
\* polls one call of wait may make
MaxPolls == 3
\* the highest block number the node has
MaxBlockNum == 2
\* transactions the node's blocks hold over one scan
MaxScanTxs == 2
\* levels of nested `result` dicts a response has
MaxDepth == 2

\* ------------------------------------------------------- program constants

DefaultWindow == 60000
\* 10 ** 6: the token's and the native coin's scale
TokenDecimals == 1000000
SunPerTrx == 1000000

\* ------------------------------------------------------------ value domains

Keys == {"kA", "kB"}
TxIdSet == {"tx1", "tx2"}
BlockIds == {"id1"}
\* the transaction under study and one reconstructed from it, and the dicts
\* and lists they can hold
Orig == "orig"
Copy == "copy"
TxRefs == {Orig, Copy}
RawRefs == {"d1", "d2"}
SigRefs == {"l1", "l2"}
\* the dict the builder holds
BuilderRaw == "d1"

\* keys.PublicKey.to_hex_address of the key's public key
AddrOf(k) == IF k = "kA" THEN "41aa" ELSE "41bb"

\* PrivateKey.sign_msg_hash(bytes.fromhex(txid)).hex(): deterministic in key and digest
SignMsgHash(k, txid) == [key |-> k, msg |-> txid]

\* a permission: None (kind "None"), the EMPTY sentinel, or a dict with keys and threshold
NonePerm == [kind |-> "None", keys |-> <<>>, threshold |-> 0]
EmptyPerm == [kind |-> "EMPTY", keys |-> <<>>, threshold |-> 0]
PermOne == [kind |-> "dict", keys |-> <<[address |-> "41aa", weight |-> 1]>>, threshold |-> 1]
PermTwo == [kind |-> "dict",
            keys |-> <<[address |-> "41aa", weight |-> 1], [address |-> "41bb", weight |-> 1]>>,
            threshold |-> 2]
NodePerms == {NonePerm, PermOne, PermTwo}

\* ref_block_id[12:16] and ref_block_id[16:32]
RefBlockBytes(id) == IF id = "id1" THEN "id1[12:16]" ELSE "id2[12:16]"
RefBlockHash(id) == IF id = "id1" THEN "id1[16:32]" ELSE "id2[16:32]"

VARIABLES
    clock,      \* wall clock, ms
    rawd,       \* heap of raw_data dicts
    sigl,       \* heap of signature lists
    txs,        \* the AsyncTransaction objects
    last,       \* the last call made and how it ended
    waiter,     \* a call of AsyncTransactionRet.wait
    ord,        \* two signing orders, and how far each has got
    scan,       \* a call of scan_block_transfers or scan_recent_transfers
    cls         \* a response handed to _handle_api_error, and what came of it

vars == <<clock, rawd, sigl, txs, last, waiter, ord, scan, cls>>

\* dict.get(key, default)
DictGet(d, key, default) == IF key \in DOMAIN d THEN d[key] ELSE default

\* current_timestamp()
current_timestamp == clock

\* ------------------------------------------------- shared error classifier

Codes == {"SIGERROR", "TAPOS_ERROR", "TRANSACTION_EXPIRATION_ERROR",
          "TOO_BIG_TRANSACTION_ERROR", "CONTRACT_VALIDATE_ERROR", "OTHER_CODE"}

\* One level of a node payload: its `result` field (absent, true, false or a
\* nested dict), whether it has an `Error` field, and its `code` field.
\* A payload is the sequence of its levels: level i+1 is the dict under
\* level i's `result`.
Level(r, e, c) == [result |-> r, Error |-> e, code |-> c]

RECURSIVE HandleFrom(_, _)
HandleFrom(p, i) ==
    IF p[i].result = "true" THEN "ok"
    ELSE IF p[i].Error THEN "ApiError"
    ELSE IF p[i].code # "absent" THEN
        CASE p[i].code = "SIGERROR" -> "BadSignature"
          [] p[i].code = "TAPOS_ERROR" -> "TaposError"
          [] p[i].code \in {"TRANSACTION_EXPIRATION_ERROR", "TOO_BIG_TRANSACTION_ERROR"}
                -> "TransactionError"
          [] p[i].code = "CONTRACT_VALIDATE_ERROR" -> "ValidationError"
          [] OTHER -> "UnknownError"
    ELSE IF p[i].result = "dict" /\ i < Len(p) THEN HandleFrom(p, i + 1)
    ELSE "ok"

\* AsyncTron._handle_api_error: the error raised, or "ok" when it returns
_handle_api_error(p) == HandleFrom(p, 1)

\* the payloads the node answers with in the lifecycle
NodePayloads ==
    { <<Level(r, FALSE, "absent")>> : r \in {"absent", "true", "false"} }
    \cup { <<Level("absent", TRUE, "absent")>>, <<Level("false", FALSE, "SIGERROR")>>,
           <<Level("dict", FALSE, "absent"), Level("absent", FALSE, "TAPOS_ERROR")>> }

\* every level a response can have, and the responses of at most MaxDepth
\* levels: each level but the last holds the next one under `result`
Levels == { Level(r, e, c) : r \in {"absent", "true", "false", "dict"}, e \in BOOLEAN,
                             c \in Codes \cup {"absent"} }
Responses ==
    { p \in UNION { [1 .. n -> Levels] : n \in 1 .. MaxDepth } :
        \A i \in 1 .. Len(p) - 1 : p[i].result = "dict" }

\* no response handed to the classifier
NoClass == [payload |-> <<Level("absent", FALSE, "absent")>>, out |-> "none"]

\* ------------------------------------------------------------------- state

NoRaw == [timestamp |-> 0, expiration |-> 0,
          ref_block_bytes |-> "None", ref_block_hash |-> "None"]
NoTx == [live |-> FALSE, raw |-> "d1", sig |-> "l1", txid |-> "", perm |-> NonePerm]
NoCall == [op |-> "none", tx |-> "none", key |-> "none", err |-> "ok", rpcs |-> <<>>]

Call(op, t, k, err, rpcs) ==
    [op |-> op, tx |-> t, key |-> k, err |-> err, rpcs |-> rpcs]

Live == {t \in TxRefs : txs[t].live}

\* what the garbage collector leaves: an object nobody references is gone
SweepSig(s, x) == [r \in SigRefs |->
                     IF \E t \in TxRefs : x[t].live /\ x[t].sig = r THEN s[r] ELSE <<>>]
SweepRaw(d, x) == [r \in RawRefs |->
                     IF r = BuilderRaw \/ \E t \in TxRefs : x[t].live /\ x[t].raw = r
                     THEN d[r] ELSE NoRaw]

\* a list (dict) no transaction other than t refers to
FreshSig(t) == CHOOSE r \in SigRefs : \A u \in Live \ {t} : txs[u].sig # r
FreshRaw(t) == CHOOSE r \in RawRefs \ {BuilderRaw} : \A u \in Live \ {t} : txs[u].raw # r
HasFreshRaw(t) == \E r \in RawRefs \ {BuilderRaw} : \A u \in Live \ {t} : txs[u].raw # r

\* ------------------------------------------------------------ node answers

Getnodeinfo == "wallet/getnodeinfo"
SolidNowblock == "walletsolidity/getnowblock"
Getsignweight == "wallet/getsignweight"
Broadcasttransaction == "wallet/broadcasttransaction"

\* AsyncTron.get_latest_solid_block_id: the id from getnodeinfo, or, when that
\* raises, the blockID of getnowblock, or that request's exception
AnchorOutcomes ==
    { [err |-> "ok", id |-> i, rpcs |-> <<Getnodeinfo>>] : i \in BlockIds }
    \cup { [err |-> "ok", id |-> i, rpcs |-> <<Getnodeinfo, SolidNowblock>>] : i \in BlockIds }
    \cup { [err |-> "ProviderError", id |-> "id1", rpcs |-> <<Getnodeinfo, SolidNowblock>>] }

\* what wallet/getsignweight answers: a payload with a `transaction` section
\* (its txID, and its permission or None when it has none), one without, or
\* the transport's exception
SignWeightAnswers ==
    { [kind |-> "tx", txID |-> i, perm |-> p, payload |-> <<>>] : i \in TxIdSet, p \in NodePerms }
    \cup { [kind |-> "notx", txID |-> "", perm |-> NonePerm, payload |-> p] : p \in NodePayloads }
    \cup { [kind |-> "raise", txID |-> "", perm |-> NonePerm, payload |-> <<>>] }

\* what wallet/broadcasttransaction answers: a payload, with a txid field or not
BroadcastAcks == { [payload |-> p, hasTxid |-> h] : p \in NodePayloads, h \in BOOLEAN }

\* -------------------------------------------------------- AsyncTransaction

\* AsyncTransaction.__init__(raw_data, txid, permission, signature): the fields
\* of the new object, on the heap d, s; sigArg is "None" for None.  `signature or []` is a new list
\* unless the list given is non-empty.
TxInit(t, d, s, rawArg, txid, perm, sigArg) ==
    [live |-> TRUE,
     raw  |-> DictGet(d[rawArg], "raw_data", rawArg),
     sig  |-> DictGet(d[rawArg], "signature",
                      IF sigArg # "None" /\ s[sigArg] # <<>> THEN sigArg ELSE FreshSig(t)),
     txid |-> DictGet(d[rawArg], "txID", txid),
     perm |-> DictGet(d[rawArg], "permission", perm)]

\* a check_sign_weight that returns, as update does, when the classifier
\* finds nothing to raise
check_sign_weight_no_raise(w) ==
    IF w.kind = "raise" THEN [err |-> "ProviderError", txid |-> "", perm |-> NonePerm]
    ELSE IF w.kind = "notx" THEN
        [err |-> _handle_api_error(w.payload), txid |-> "", perm |-> NonePerm]
    ELSE [err |-> "ok", txid |-> w.txID, perm |-> w.perm]

\* AsyncTransaction.check_sign_weight on the answer w
check_sign_weight(w) ==
    IF w.kind = "raise" THEN [err |-> "ProviderError", txid |-> "", perm |-> NonePerm]
    ELSE IF w.kind = "notx" THEN
        [err |-> IF _handle_api_error(w.payload) # "ok" THEN _handle_api_error(w.payload)
                 ELSE "TransactionError",
         txid |-> "", perm |-> NonePerm]
    ELSE [err |-> "ok", txid |-> w.txID, perm |-> w.perm]

\* a weight check that asks the node nothing
AskedNothing(rpcs) == rpcs

\* the requests sent once check_sign_weight has posted the transaction
AskedSignWeight(rpcs) == Append(rpcs, Getsignweight)

\* a create that always runs the weight check
NeedsCheckAlways(tx) == TRUE

\* AsyncTransaction.create: whether the new object needs the weight check
NeedsCheck(tx) == tx.txid = "" \/ tx.perm.kind = "EMPTY"

\* AsyncTransaction.create into slot t, on the heap d, s (the caller's dicts
\* and lists), for the call `op` that has made the requests `rpcs` so far
create(op, t, d, s, rawArg, txid, perm, sigArg, rpcs, w) ==
    LET tx0 == TxInit(t, d, s, rawArg, txid, perm, sigArg)
        s0 == IF tx0.sig = sigArg THEN s ELSE [s EXCEPT ![tx0.sig] = <<>>]
        c == check_sign_weight(w)
    IN  IF NeedsCheck(tx0)
        THEN IF c.err = "ok"
             THEN /\ txs' = [txs EXCEPT ![t] = [tx0 EXCEPT !.txid = c.txid, !.perm = c.perm]]
                  /\ sigl' = SweepSig(s0, txs')
                  /\ rawd' = SweepRaw(d, txs')
                  /\ last' = Call(op, t, "none", "ok", AskedSignWeight(rpcs))
             ELSE /\ txs' = txs
                  /\ sigl' = SweepSig(s, txs)
                  /\ rawd' = SweepRaw(d, txs)
                  /\ last' = Call(op, t, "none", c.err, AskedSignWeight(rpcs))
        ELSE /\ txs' = [txs EXCEPT ![t] = tx0]
             /\ sigl' = SweepSig(s0, txs')
             /\ rawd' = SweepRaw(d, txs')
             /\ last' = Call(op, t, "none", "ok", rpcs)

\* AsyncTransaction.to_json: the dict, holding the object's own dict and list
to_json(tx) ==
    [txID |-> tx.txid, raw_data |-> tx.raw, signature |-> tx.sig,
     permission |-> IF tx.perm.kind # "EMPTY" THEN tx.perm ELSE NonePerm]

\* the JSON text of to_json() on the heap d, s: the values, without the
\* object identities
JsonText(tx, d, s) ==
    [txID |-> to_json(tx).txID, raw_data |-> d[to_json(tx).raw_data],
     signature |-> s[to_json(tx).signature], permission |-> to_json(tx).permission]

\* AsyncTransaction.is_expired
is_expired(tx) == current_timestamp >= rawd[tx.raw].expiration

\* the for/else of sign: whether a key of the permission has the address
KeyInPermission(perm, addr) == \E i \in 1 .. Len(perm.keys) : perm.keys[i].address = addr

\* a sign that leaves out the permission check
SignCheckNoPerm(tx, k) ==
    IF tx.txid = "" THEN "AssertionError: txID not calculated"
    ELSE IF is_expired(tx) THEN "AssertionError: expired"
    ELSE "ok"

\* a sign whose expiration test is `>` instead of `>=`
SignCheckLate(tx, k) ==
    IF tx.txid = "" THEN "AssertionError: txID not calculated"
    ELSE IF current_timestamp > rawd[tx.raw].expiration THEN "AssertionError: expired"
    ELSE IF tx.perm.kind # "None" /\ ~KeyInPermission(tx.perm, AddrOf(k)) THEN "BadKey"
    ELSE "ok"

\* a sign without the txid assertion
SignCheckNoTxid(tx, k) ==
    IF is_expired(tx) THEN "AssertionError: expired"
    ELSE IF tx.perm.kind # "None" /\ ~KeyInPermission(tx.perm, AddrOf(k)) THEN "BadKey"
    ELSE "ok"

\* AsyncTransaction.sign up to the signature: the exception raised, or "ok"
SignCheck(tx, k) ==
    IF tx.txid = "" THEN "AssertionError: txID not calculated"
    ELSE IF is_expired(tx) THEN "AssertionError: expired"
    ELSE IF tx.perm.kind = "EMPTY" THEN "TypeError"
    ELSE IF tx.perm.kind # "None" /\ ~KeyInPermission(tx.perm, AddrOf(k)) THEN "BadKey"
    ELSE "ok"

\* a sign that keeps only the newest signature
SignReplace(list, k, txid) == <<SignMsgHash(k, txid)>>

\* a sign that appends its signature twice
SignAppendTwice(list, k, txid) == Append(Append(list, SignMsgHash(k, txid)), SignMsgHash(k, txid))

\* self._signature.append(sig.hex())
SignAppend(list, k, txid) == Append(list, SignMsgHash(k, txid))

\* AsyncTransaction.update, lines 219-228: the weight check of update, on the answer w
UpdateWeight(w) ==
    IF w.kind = "raise" THEN [err |-> "ProviderError", txid |-> "", perm |-> NonePerm]
    ELSE IF w.kind = "notx" THEN
        [err |-> _handle_api_error(w.payload), txid |-> "", perm |-> NonePerm]
    ELSE [err |-> "ok", txid |-> w.txID, perm |-> w.perm]

\* AsyncTransactionBuilder.__init__: the raw_data of a builder made while the
\* clock reads t0, then t1
BuilderInit(t0, t1) ==
    [timestamp |-> t0, expiration |-> t1 + DefaultWindow,
     ref_block_bytes |-> "None", ref_block_hash |-> "None"]

\* the windows the caller passes to AsyncTransactionBuilder.expiration
Windows == {0, DefaultWindow}

\* no call of wait, no signing orders
NoResult == [kind |-> "none", msg |-> "none", tried |-> FALSE, decoded |-> FALSE]
NoReceipt == [failed |-> FALSE, resMessage |-> FALSE, revert |-> FALSE, cr |-> "absent"]
NoWait == [pc |-> "idle", end_time |-> 0, interval |-> 0, len64 |-> TRUE,
           polls |-> <<>>, wake |-> 0, err |-> "none",
           method |-> "None", via |-> "none", rc |-> NoReceipt, res |-> NoResult]
NoOrder == [a |-> "none", b |-> "none", n |-> [t \in TxRefs |-> 0]]

\* -------------------------------------------------------------- the scanner

\* USDT_CONTRACT_ADDRESS of scan_block_transfers
UsdtAddress == "TR7NHqjeKQxGTCi8q8ZY4pL8otSzgjLj6t"

\* keys.to_base58check_address(x) for an address the node prints (visible:
\* base58check, returned as it is); any other string makes it raise
Base58Addrs == {"TA", "TB", "TW", "TOther", UsdtAddress}
ToBase58(x) == IF x \in Base58Addrs THEN [err |-> "ok", addr |-> x]
               ELSE [err |-> "BadAddress", addr |-> ""]

\* to_base58check_address('41' + field) for a slice of the call data: 40 hex
\* characters give the address of those 20 bytes, anything else raises
AddressOfField(f) ==
    CASE f = "hexA" -> [err |-> "ok", addr |-> "TA"]
      [] f = "hexB" -> [err |-> "ok", addr |-> "TB"]
      [] f = "0*24+hexB[:16]" -> [err |-> "ok", addr |-> "TP"]
      [] OTHER -> [err |-> "BadAddress", addr |-> ""]

\* int(f + g, 16) / 10 ** 6: the digits read, kept as they are, over the
\* scale; int raises on the empty string
TokenAmount(f, g) ==
    IF f = "" /\ g = "" THEN [err |-> "ValueError", digits |-> <<f, g>>, scale |-> TokenDecimals]
    ELSE [err |-> "ok", digits |-> <<f, g>>, scale |-> TokenDecimals]

\* the call data of a TriggerSmartContract: sel = data[0:8], a = data[32:72],
\* b = data[72:112], c = data[112:]
Data(sel, a0, b0, c0) == [sel |-> sel, a |-> a0, b |-> b0, c |-> c0]
NoData == Data("", "", "", "")

\* tx['ret']: absent or empty (has = FALSE), or a receipt with some of the
\* four resource fields
Ret(has, fields) == [has |-> has, fields |-> fields]
\* receipt.get(f, 0)
ReceiptGet(ret, f) == IF f \in ret.fields THEN 268 ELSE 0

\* the resource dict of a record: the four fields of the receipt, 0 for a
\* field the receipt lacks; without a receipt the native record gets {} and
\* the token record no resource key (present = FALSE)
Resource(ret) ==
    IF ret.has
    THEN [present |-> TRUE,
          energy_usage |-> ReceiptGet(ret, "energy_usage"), net_usage |-> ReceiptGet(ret, "net_usage"),
          energy_fee |-> ReceiptGet(ret, "energy_fee"), net_fee |-> ReceiptGet(ret, "net_fee")]
    ELSE [present |-> FALSE, energy_usage |-> 0, net_usage |-> 0, energy_fee |-> 0, net_fee |-> 0]

\* a transaction of a block: type is contract[0]['type'] ("none" when the
\* contract list is empty), owner, to, amount and caddr the fields of its
\* parameter value ("absent" when the value lacks the field)
ScanTxRec(id, type, owner, to, amount, caddr, data, ret) ==
    [txID |-> id, type |-> type, owner |-> owner, to |-> to, amount |-> amount,
     caddr |-> caddr, data |-> data, ret |-> ret]

NativeGood == ScanTxRec("n1", "TransferContract", "TA", "TB", 5000000, "absent", NoData,
                        Ret(TRUE, {"net_usage"}))
NativeMalformed == ScanTxRec("n2", "TransferContract", "TA", "absent", 5000000, "absent", NoData,
                             Ret(FALSE, {}))
NativeNoReceipt == ScanTxRec("n3", "TransferContract", "TB", "TA", 1000000, "absent", NoData,
                             Ret(FALSE, {}))
TokenTransfer == ScanTxRec("u1", "TriggerSmartContract", "TA", "absent", 0, UsdtAddress,
                           Data("a9059cbb", "hexB", "0*40", "0*18+0f4240"), Ret(FALSE, {}))
TokenTransferFrom == ScanTxRec("u2", "TriggerSmartContract", "TW", "absent", 0, UsdtAddress,
                               Data("23b872dd", "hexA", "0*24+hexB[:16]", "hexB[16:]+0*58+0f4240"),
                               Ret(TRUE, {"energy_usage", "energy_fee"}))
TokenOtherSelector == ScanTxRec("u3", "TriggerSmartContract", "TA", "absent", 0, UsdtAddress,
                                Data("deadbeef", "hexB", "0*40", "0*18+0f4240"), Ret(TRUE, {}))
TokenTruncated == ScanTxRec("u4", "TriggerSmartContract", "TB", "absent", 0, UsdtAddress,
                            Data("a9059cbb", "", "", ""), Ret(TRUE, {}))
OtherContractCall == ScanTxRec("o1", "TriggerSmartContract", "TA", "absent", 0, "TOther",
                               Data("a9059cbb", "hexB", "0*40", "0*18+0f4240"), Ret(FALSE, {}))
NoContractTx == ScanTxRec("e1", "none", "absent", "absent", 0, "absent", NoData, Ret(FALSE, {}))

\* the transactions the node's blocks hold
ScanTxs == {NativeGood, NativeMalformed, NativeNoReceipt, TokenTransfer, TokenTransferFrom, TokenOtherSelector,
            TokenTruncated, OtherContractCall, NoContractTx}

\* the filters a caller passes as `address`
Filters == {"None", "TA", "TB", "TZ"}

NoInfo == [block_number |-> 0, timestamp |-> "none", txid |-> "", from |-> "", to |-> "",
           amount |-> TokenAmount("", ""), method |-> "none", resource |-> Resource(Ret(FALSE, {}))]

\* the record parse_usdt_transfer returns once the three fields are decoded
TransferInfo(tx, num, ts, from, to, amount, method) ==
    IF from.err # "ok" \/ to.err # "ok" \/ amount.err # "ok"
    THEN [none |-> TRUE, info |-> NoInfo]
    ELSE [none |-> FALSE,
          info |-> [block_number |-> num, timestamp |-> ts, txid |-> tx.txID,
                    from |-> from.addr, to |-> to.addr, amount |-> amount,
                    method |-> method, resource |-> Resource(Ret(FALSE, {}))]]

\* a parse that reads every selector as a transfer
parse_any_selector(tx, num, ts) ==
    TransferInfo(tx, num, ts, ToBase58(tx.owner), AddressOfField(tx.data.a),
                 TokenAmount(tx.data.b, tx.data.c), "transfer")

\* AsyncTron.parse_usdt_transfer(tx, block_num, block_timestamp): None, or
\* the record
parse_usdt_transfer(tx, num, ts) ==
    IF tx.data.sel = "a9059cbb"
    THEN TransferInfo(tx, num, ts, ToBase58(tx.owner), AddressOfField(tx.data.a),
                      TokenAmount(tx.data.b, tx.data.c), "transfer")
    ELSE IF tx.data.sel = "23b872dd"
    THEN TransferInfo(tx, num, ts, AddressOfField(tx.data.a), AddressOfField(tx.data.b),
                      TokenAmount(tx.data.c, ""), "transferFrom")
    ELSE [none |-> TRUE, info |-> NoInfo]

\* a filter that looks at the recipient only
MatchesRecipient(address, from, to) == address = "None" \/ address = to

\* address is None or address in [from, to]
MatchesFilter(address, from, to) == address = "None" \/ address = from \/ address = to

\* a count that books a failed parse as a success as well
CountParseTwice(st, failedParse, txid) ==
    IF failedParse
    THEN [st EXCEPT !.total_transactions = @ + 1, !.failed_parse = @ + 1,
                    !.successful_parse = @ + 1, !.failed_txids = Append(@, txid)]
    ELSE [st EXCEPT !.total_transactions = @ + 1, !.successful_parse = @ + 1]

\* the stats after one candidate: lines 1597, 1611 and 1615-1616
CountParse(st, failedParse, txid) ==
    IF failedParse
    THEN [st EXCEPT !.total_transactions = @ + 1, !.failed_parse = @ + 1,
                    !.failed_txids = Append(@, txid)]
    ELSE [st EXCEPT !.total_transactions = @ + 1, !.successful_parse = @ + 1]

NoStats == [total_transactions |-> 0, failed_parse |-> 0, successful_parse |-> 0,
            failed_txids |-> <<>>]

\* a test of the contract address alone, whatever the type of the contract
IsCandidateAnyType(tx) ==
    IF tx.caddr = "absent" THEN "KeyError"
    ELSE IF ToBase58(tx.caddr).err # "ok" THEN ToBase58(tx.caddr).err
    ELSE IF ToBase58(tx.caddr).addr = UsdtAddress THEN "yes" ELSE "no"

\* whether the scan takes tx for a token transfer: the exception raised by the
\* test of line 1595-1596, "yes" or "no"
IsCandidate(tx) ==
    IF tx.type # "TriggerSmartContract" THEN "no"
    ELSE IF tx.caddr = "absent" THEN "KeyError"
    ELSE IF ToBase58(tx.caddr).err # "ok" THEN ToBase58(tx.caddr).err
    ELSE IF ToBase58(tx.caddr).addr = UsdtAddress THEN "yes" ELSE "no"

\* lines 1562-1590 on one transaction: the exception raised or "ok", and the
\* native list after it
NativeStep(trx, tx, num, ts, address) ==
    IF tx.type # "TransferContract" THEN [err |-> "ok", trx |-> trx]
    ELSE IF tx.owner = "absent" \/ tx.to = "absent" THEN [err |-> "KeyError", trx |-> trx]
    ELSE IF ToBase58(tx.owner).err # "ok" \/ ToBase58(tx.to).err # "ok"
         THEN [err |-> "BadAddress", trx |-> trx]
    ELSE IF MatchesFilter(address, ToBase58(tx.owner).addr, ToBase58(tx.to).addr)
         THEN [err |-> "ok",
               trx |-> Append(trx, [block_number |-> num, timestamp |-> ts, txid |-> tx.txID,
                                    from |-> ToBase58(tx.owner).addr, to |-> ToBase58(tx.to).addr,
                                    amount |-> [units |-> tx.amount, scale |-> SunPerTrx],
                                    resource |-> Resource(tx.ret)])]
    ELSE [err |-> "ok", trx |-> trx]

\* lines 1593-1616 on one transaction: the exception raised or "ok", and the
\* token list and the stats after it
TokenStep(usdt, st, tx, num, ts, address) ==
    LET p == parse_usdt_transfer(tx, num, ts)
        info == [p.info EXCEPT !.resource = IF tx.ret.has THEN Resource(tx.ret) ELSE @]
    IN  IF IsCandidate(tx) = "no" THEN [err |-> "ok", usdt |-> usdt, stats |-> st]
        ELSE IF IsCandidate(tx) # "yes" THEN [err |-> IsCandidate(tx), usdt |-> usdt, stats |-> st]
        ELSE [err |-> "ok",
              usdt |-> IF ~p.none /\ MatchesFilter(address, info.from, info.to)
                       THEN Append(usdt, info) ELSE usdt,
              stats |-> CountParse(st, p.none, tx.txID)]

\* no scan: the frame of scan_block_transfers (op "range") or
\* scan_recent_transfers (op "recent") and the result dict it builds;
\* reqs, answered, latestReads and cands record the requests made, the block
\* answers received, the reads of the latest block number and the token
\* candidates met
NoScan == [pc |-> "idle", op |-> "none", start |-> 0, end |-> 0, address |-> "None",
           count |-> 0, latest |-> 0, num |-> 0, ts |-> "none", pending |-> <<>>,
           blocks |-> <<>>, trx |-> <<>>, usdt |-> <<>>, stats |-> NoStats,
           reqs |-> <<>>, answered |-> 0, latestReads |-> 0, cands |-> 0, served |-> 0,
           err |-> "none", at |-> "none"]

\* ------------------------------------------------------------------ actions

Init ==
    /\ \E skew \in {0, TickMs} :
         /\ clock = skew
         /\ rawd = [r \in RawRefs |-> IF r = BuilderRaw THEN BuilderInit(0, skew) ELSE NoRaw]
    /\ sigl = [r \in SigRefs |-> <<>>]
    /\ txs = [t \in TxRefs |-> NoTx]
    /\ last = NoCall
    /\ waiter = NoWait
    /\ ord = NoOrder
    /\ scan = NoScan
    /\ cls = NoClass

\* the wall clock advances
Tick ==
    /\ clock + TickMs <= MaxClock
    /\ clock' = clock + TickMs
    /\ UNCHANGED <<rawd, sigl, txs, last, waiter, ord, scan, cls>>

\* AsyncTransactionBuilder.expiration(w)
expiration(w) ==
    /\ rawd' = [rawd EXCEPT ![BuilderRaw].expiration = current_timestamp + w]
    /\ last' = Call("expiration", "none", "none", "ok", <<>>)
    /\ UNCHANGED <<clock, sigl, txs, waiter, ord, scan, cls>>

\* AsyncTransaction(raw_data): the constructor alone, on the builder's dict
New(t) ==
    /\ ~txs[t].live
    /\ txs' = [txs EXCEPT ![t] = TxInit(t, rawd, sigl, BuilderRaw, "", NonePerm, "None")]
    /\ sigl' = SweepSig([sigl EXCEPT ![txs'[t].sig] = <<>>], txs')
    /\ last' = Call("new", t, "none", "ok", <<>>)
    /\ UNCHANGED <<clock, rawd, waiter, ord, scan, cls>>

\* AsyncTransactionBuilder.build() into slot t, the node answering a to the
\* anchor request and w to the weight check
build(t, a, w) ==
    /\ ~txs[t].live
    /\ UNCHANGED <<clock, waiter, ord, scan, cls>>
    /\ IF a.err # "ok"
       THEN /\ last' = Call("build", t, "none", a.err, a.rpcs)
            /\ UNCHANGED <<rawd, sigl, txs>>
       ELSE create("build", t,
                   [rawd EXCEPT ![BuilderRaw].ref_block_bytes = RefBlockBytes(a.id),
                                ![BuilderRaw].ref_block_hash = RefBlockHash(a.id)],
                   sigl, BuilderRaw, "", NonePerm, "None", a.rpcs, w)

Build(t) == \E a \in AnchorOutcomes, w \in SignWeightAnswers : build(t, a, w)

\* AsyncTransaction.from_json(data) into slot t, data being u.to_json() itself
\* (same dict, same list) or, with copy, what json.loads gives of its text
from_json(t, u, copy) ==
    /\ ~txs[t].live
    /\ txs[u].live
    /\ copy => HasFreshRaw(t)
    /\ UNCHANGED <<clock, waiter, ord, scan, cls>>
    /\ LET data == to_json(txs[u])
           dr == IF copy THEN FreshRaw(t) ELSE data.raw_data
           ds == IF copy THEN FreshSig(t) ELSE data.signature
           d == [rawd EXCEPT ![dr] = rawd[data.raw_data]]
           s == [sigl EXCEPT ![ds] = sigl[data.signature]]
       IN \E w \in SignWeightAnswers :
            create("from_json", t, d, s, dr, data.txID, data.permission, ds, <<>>, w)

\* the test of from_json that decides whether data is parsed:
\* isinstance(json, str), json being the module, whatever data is
IsInstanceJsonStr(dataIsStr) == FALSE

\* AsyncTransaction.from_json(text) into slot t, text being the JSON string
\* json.dumps(u.to_json()): parsed, it is from_json of a copy; unparsed,
\* data["txID"] on a str raises TypeError
from_json_text(t, u) ==
    /\ ~txs[t].live
    /\ txs[u].live
    /\ IF IsInstanceJsonStr(TRUE)
       THEN from_json(t, u, TRUE)
       ELSE /\ last' = Call("from_json", t, "text", "TypeError", <<>>)
            /\ UNCHANGED <<clock, rawd, sigl, txs, waiter, ord, scan, cls>>

\* AsyncTransaction.sign(priv_key)
sign(t, k) ==
    /\ txs[t].live
    /\ UNCHANGED <<clock, rawd, txs, waiter, scan, cls>>
    /\ last' = Call("sign", t, k, SignCheck(txs[t], k), <<>>)
    /\ IF SignCheck(txs[t], k) = "ok"
       THEN /\ Len(sigl[txs[t].sig]) < MaxSigs
            /\ sigl' = [sigl EXCEPT ![txs[t].sig] = SignAppend(@, k, txs[t].txid)]
       ELSE UNCHANGED sigl

\* sign(priv_key) in the lifecycle
Sign(t, k) == sign(t, k) /\ UNCHANGED ord

\* the lists a caller passes to set_signature
CallerLists == {<<>>, <<SignMsgHash("kB", "tx1")>>}

\* AsyncTransaction.set_signature(signature), the caller's list holding l
set_signature(t, l) ==
    /\ txs[t].live
    /\ txs' = [txs EXCEPT ![t].sig = FreshSig(t)]
    /\ sigl' = SweepSig([sigl EXCEPT ![FreshSig(t)] = l], txs')
    /\ last' = Call("set_signature", t, "none", "ok", <<>>)
    /\ UNCHANGED <<clock, rawd, waiter, ord, scan, cls>>

\* AsyncTransaction.update(), the node answering a to the anchor request and
\* w to the weight check
update(t, a, w) ==
    /\ txs[t].live
    /\ UNCHANGED <<clock, waiter, ord, scan, cls>>
    /\ LET d0 == [rawd EXCEPT ![txs[t].raw].timestamp = current_timestamp,
                              ![txs[t].raw].expiration = current_timestamp + 60000]
           c == UpdateWeight(w)
       IN IF a.err # "ok"
          THEN /\ rawd' = d0
               /\ last' = Call("update", t, "none", a.err, a.rpcs)
               /\ UNCHANGED <<sigl, txs>>
          ELSE /\ rawd' = [d0 EXCEPT ![txs[t].raw].ref_block_bytes = RefBlockBytes(a.id),
                                     ![txs[t].raw].ref_block_hash = RefBlockHash(a.id)]
               /\ txs' = [txs EXCEPT ![t].txid = c.txid, ![t].perm = c.perm,
                                     ![t].sig = FreshSig(t)]
               /\ sigl' = SweepSig([sigl EXCEPT ![FreshSig(t)] = <<>>], txs')
               /\ last' = Call("update", t, "none", c.err, Append(a.rpcs, Getsignweight))

Update(t) == \E a \in AnchorOutcomes, w \in SignWeightAnswers : update(t, a, w)

\* AsyncTransaction.broadcast(): AsyncTron.broadcast, then AsyncTransactionRet
broadcast(t) ==
    /\ txs[t].live
    /\ UNCHANGED <<clock, rawd, sigl, txs, waiter, ord, scan, cls>>
    /\ \E ack \in BroadcastAcks :
         last' = Call("broadcast", t, "none",
                      IF _handle_api_error(ack.payload) # "ok" THEN _handle_api_error(ack.payload)
                      ELSE IF ~ack.hasTxid THEN "KeyError" ELSE "ok",
                      <<Broadcasttransaction>>)

\* the caller drops its reference to the object, which is collected
Discard(t) ==
    /\ txs[t].live
    /\ txs' = [txs EXCEPT ![t] = NoTx]
    /\ sigl' = SweepSig(sigl, txs')
    /\ rawd' = SweepRaw(rawd, txs')
    /\ last' = Call("del", t, "none", "ok", <<>>)
    /\ UNCHANGED <<clock, waiter, ord, scan, cls>>

\* the lifecycle of one transaction
Next ==
    \/ Tick
    \/ \E w \in Windows : expiration(w)
    \/ New(Orig)
    \/ Build(Orig)
    \/ \E k \in Keys : Sign(Orig, k)
    \/ \E l \in CallerLists : set_signature(Orig, l)
    \/ Update(Orig)
    \/ broadcast(Orig)
    \/ Discard(Orig)

Spec == Init /\ [][Next]_vars

\* the lifecycle of one transaction, then its reconstruction by from_json
NextJson ==
    \/ ~txs[Copy].live /\ Next
    \/ \E copy \in BOOLEAN : from_json(Copy, Orig, copy)
    \/ from_json_text(Copy, Orig)
    \/ Discard(Copy)

SpecJson == Init /\ [][NextJson]_vars

\* ------------------------------------------------ AsyncTransactionRet.wait

\* the timeouts and intervals a caller passes, ms
Timeouts == {0, TickMs, 2 * TickMs}
Intervals == {0, TickMs, 2 * TickMs}

\* what wallet/gettransactioninfobyid answers: a payload, `other` saying
\* whether the dict has fields besides result, Error and code
InfoAnswers == { [payload |-> p, other |-> o] : p \in NodePayloads, o \in BOOLEAN }

\* `if ret`: the dict is not empty
Truthy(ans) ==
    \/ ans.other
    \/ ans.payload[1].result # "absent" \/ ans.payload[1].Error \/ ans.payload[1].code # "absent"

\* AsyncTron.get_transaction_info(txn_id) on the answer ans: "receipt" when it
\* returns the dict, or the exception raised
get_transaction_info(len64, ans) ==
    IF ~len64 THEN "BadHash"
    ELSE IF _handle_api_error(ans.payload) # "ok" THEN _handle_api_error(ans.payload)
    ELSE IF Truthy(ans) THEN "receipt"
    ELSE "TransactionNotFound"

\* a loop condition that still admits a poll at end_time
LoopCondLe(now, end) == now <= end

\* a loop condition that never ends the loop
LoopCondForever(now, end) == TRUE

\* the loop condition of wait: time.time() < end_time
LoopCond(now, end) == now < end

\* a loop body whose except clause catches every exception
LoopBodySwallow(out) == IF out = "receipt" THEN "return" ELSE "sleep"

\* the body of wait's loop on a poll's outcome: return it, sleep, or let the
\* exception through
LoopBody(out) ==
    IF out = "receipt" THEN "return"
    ELSE IF out = "TransactionNotFound" THEN "sleep"
    ELSE "raise"

\* what the receipt of a contract call holds: whether result is FAILED,
\* whether it has a resMessage, whether receipt.result is REVERT, and its
\* contractResult: absent, an empty list, or a list whose first entry has at
\* most 72 hex characters ("short"), more and an ABI string behind the
\* selector and offset ("long"), or more and bytes that do not decode
Receipts == [failed : BOOLEAN, resMessage : BOOLEAN, revert : BOOLEAN,
             cr : {"absent", "empty", "short", "long", "undecodable"}]

\* a length test that lets every non-empty contractResult through
DecodeTriedAnyLength(cr) == cr \notin {"absent", "empty"}

\* result and len(result[0]) > (4 + 32) * 2: whether the string decode of
\* line 94 is attempted
DecodeTried(cr) == cr \in {"long", "undecodable"}

\* a result that takes every handle for a contract call
MethodNeverNone(method) == FALSE

\* self._method is None
MethodIsNone(method) == method = "None"

\* result(), lines 87-100, on the receipt wait returned: the exception raised
\* with its message, or the value of parse_output
ResultOf(rc) ==
    IF rc.failed
    THEN [kind |-> "TvmError",
          msg |-> IF rc.resMessage THEN "resMessage" ELSE "FAILED",
          tried |-> rc.revert /\ DecodeTried(rc.cr),
          decoded |-> rc.revert /\ DecodeTried(rc.cr) /\ rc.cr = "long"]
    ELSE CASE rc.cr = "absent" -> [NoResult EXCEPT !.kind = "KeyError"]
           [] rc.cr = "empty" -> [NoResult EXCEPT !.kind = "IndexError"]
           [] OTHER -> [NoResult EXCEPT !.kind = "value"]

\* wait(timeout, interval) is called: end_time = time.time() + timeout
WaitCall(timeout, interval) ==
    /\ waiter.pc = "idle"
    /\ waiter' = [waiter EXCEPT !.pc = "test", !.end_time = clock + timeout,
                                !.interval = interval, !.via = "wait"]
    /\ UNCHANGED <<clock, rawd, sigl, txs, last, ord, scan, cls>>

\* the loop condition is evaluated: the next poll is issued (a txid of the
\* wrong length makes it raise BadHash before any request), or the loop ends
\* and wait raises TransactionNotFound
WaitTest ==
    /\ waiter.pc = "test"
    /\ IF LoopCond(clock, waiter.end_time)
       THEN /\ Len(waiter.polls) < MaxPolls
            /\ IF waiter.len64
               THEN waiter' = [waiter EXCEPT !.pc = "polling",
                                 !.polls = Append(@, [at |-> clock, out |-> "pending"])]
               ELSE waiter' = [waiter EXCEPT !.pc = "raised", !.err = "BadHash",
                                 !.polls = Append(@, [at |-> clock, out |-> "BadHash"])]
       ELSE waiter' = [waiter EXCEPT !.pc = "raised", !.err = "timeout"]
    /\ UNCHANGED <<clock, rawd, sigl, txs, last, ord, scan, cls>>

\* result(timeout, interval) is called: it raises TypeError on a handle with
\* no method, and calls wait otherwise
ResultCall(timeout, interval) ==
    /\ waiter.pc = "idle"
    /\ waiter' = IF MethodIsNone(waiter.method)
                 THEN [waiter EXCEPT !.pc = "notcalled", !.via = "result",
                                     !.res = [NoResult EXCEPT !.kind = "TypeError"]]
                 ELSE [waiter EXCEPT !.pc = "test", !.end_time = clock + timeout,
                                     !.interval = interval, !.via = "result"]
    /\ UNCHANGED <<clock, rawd, sigl, txs, last, ord, scan, cls>>

\* the poll in progress ends with the node's answer ans, a receipt holding rc;
\* a receipt returned to result is worked on at once
WaitPoll(ans, rc) ==
    /\ waiter.pc = "polling"
    /\ rc.failed => ans.payload[1].result = "false"
    /\ LET out == get_transaction_info(waiter.len64, ans)
           n == Len(waiter.polls)
           polls == [waiter.polls EXCEPT ![n].out = out]
       IN waiter' =
            CASE LoopBody(out) = "return" ->
                    [waiter EXCEPT !.pc = "returned", !.polls = polls,
                                   !.rc = IF waiter.via = "result" THEN rc ELSE @,
                                   !.res = IF waiter.via = "result" THEN ResultOf(rc) ELSE @]
              [] LoopBody(out) = "sleep" ->
                    [waiter EXCEPT !.pc = "sleeping", !.polls = polls,
                                   !.wake = clock + waiter.interval]
              [] OTHER -> [waiter EXCEPT !.pc = "raised", !.polls = polls, !.err = out]
    /\ UNCHANGED <<clock, rawd, sigl, txs, last, ord, scan, cls>>

\* asyncio.sleep(interval) is over
WaitWake ==
    /\ waiter.pc = "sleeping"
    /\ clock >= waiter.wake
    /\ waiter' = [waiter EXCEPT !.pc = "test"]
    /\ UNCHANGED <<clock, rawd, sigl, txs, last, ord, scan, cls>>

InitWait ==
    /\ clock = 0
    /\ rawd = [r \in RawRefs |-> IF r = BuilderRaw THEN BuilderInit(0, 0) ELSE NoRaw]
    /\ sigl = [r \in SigRefs |-> <<>>]
    /\ txs = [t \in TxRefs |-> NoTx]
    /\ last = NoCall
    /\ \E b \in BOOLEAN, m \in {"None", "method"} :
         waiter = [NoWait EXCEPT !.len64 = b, !.method = m]
    /\ ord = NoOrder
    /\ scan = NoScan
    /\ cls = NoClass

NextWait ==
    \/ Tick
    \/ \E timeout \in Timeouts, interval \in Intervals : WaitCall(timeout, interval)
    \/ WaitTest
    \/ \E timeout \in Timeouts, interval \in Intervals : ResultCall(timeout, interval)
    \/ \E ans \in InfoAnswers, rc \in Receipts : WaitPoll(ans, rc)
    \/ WaitWake

SpecWait == InitWait /\ [][NextWait]_vars

\* the loop condition is evaluated once the record of polls is full: the next
\* poll is issued all the same, and the oldest record is forgotten
WaitTestAgain ==
    /\ waiter.pc = "test"
    /\ waiter.len64
    /\ LoopCond(clock, waiter.end_time)
    /\ Len(waiter.polls) = MaxPolls
    /\ waiter' = [waiter EXCEPT !.pc = "polling",
                                !.polls = Append(Tail(@), [at |-> clock, out |-> "pending"])]
    /\ UNCHANGED <<clock, rawd, sigl, txs, last, ord, scan, cls>>

\* a step of the coroutine: the loop test, the end of a node query, the end
\* of a sleep
WaitStep ==
    \/ WaitTest
    \/ WaitTestAgain
    \/ \E ans \in InfoAnswers, rc \in Receipts : WaitPoll(ans, rc)
    \/ WaitWake

NextWaitFair ==
    \/ NextWait
    \/ WaitTestAgain

\* wait with any number of polls, the clock advancing as long as it can, every
\* node query and every sleep returning
SpecWaitFair ==
    InitWait /\ [][NextWaitFair]_vars /\ WF_vars(Tick) /\ WF_vars(WaitStep)

\* ------------------------------------------------------------ the scanner

\* the block numbers a caller passes, and the counts it passes to
\* scan_recent_transfers
BlockNums == 0 .. MaxBlockNum
BlockCounts == {0, 1, 2, MaxBlockNum + 2}

\* the sequences over S of length at most n
SeqsUpTo(S, n) == UNION { [1 .. k -> S] : k \in 0 .. n }

\* what wallet/getblockbynum answers: a block (its timestamp and its
\* transactions), a block with no block_header, a dict with an Error field,
\* an empty dict, or the transport's exception
BlockAnswers(room) ==
    { [kind |-> "block", timestamp |-> "ts", txs |-> q] : q \in SeqsUpTo(ScanTxs, room) }
    \cup { [kind |-> k, timestamp |-> "ts", txs |-> <<>>] :
             k \in {"noheader", "Error", "empty", "transport"} }

\* AsyncTron.get_block(num) on the answer: the exception raised, or "ok"
get_block(ans) ==
    CASE ans.kind = "transport" -> "ProviderError"
      [] ans.kind = "Error" -> "BugInJavaTron"
      [] ans.kind = "empty" -> "BlockNotFound"
      [] OTHER -> "ok"

\* what wallet/getnodeinfo answers to get_latest_block_number: the number,
\* or the request fails
LatestAnswers == { [err |-> "ok", latest |-> n] : n \in BlockNums }
                 \cup { [err |-> "ProviderError", latest |-> 0] }

\* a start block that is not clamped at 0
StartBlockUnclamped(latest, block_count) == latest - block_count + 1

\* max(latest_block - block_count + 1, 0)
StartBlock(latest, block_count) ==
    IF latest - block_count + 1 > 0 THEN latest - block_count + 1 ELSE 0

\* a loop that goes on two blocks further
SkipBlockNum(num) == num + 2

\* the next value of range(start_block, end_block + 1)
NextBlockNum(num) == num + 1

\* scan_block_transfers(start_block, end_block, address) is called; without
\* end_block it first asks for the latest block number
ScanCall(start, hasEnd, end, address) ==
    /\ scan.pc = "idle"
    /\ scan' = [NoScan EXCEPT !.pc = IF hasEnd THEN "loop" ELSE "latest", !.op = "range",
                              !.start = start, !.num = start, !.end = end,
                              !.address = address]
    /\ UNCHANGED <<clock, rawd, sigl, txs, last, waiter, ord, cls>>

\* scan_recent_transfers(block_count, address) is called
ScanRecentCall(block_count, address) ==
    /\ scan.pc = "idle"
    /\ scan' = [NoScan EXCEPT !.pc = "latest", !.op = "recent", !.count = block_count,
                              !.address = address]
    /\ UNCHANGED <<clock, rawd, sigl, txs, last, waiter, ord, cls>>

\* get_latest_block_number() answers: line 1526, or lines 1675-1678
ScanLatest(ans) ==
    /\ scan.pc = "latest"
    /\ scan' =
         IF ans.err # "ok"
         THEN [scan EXCEPT !.pc = "raised", !.err = ans.err, !.at = "latest",
                           !.latestReads = @ + 1]
         ELSE IF scan.op = "recent"
         THEN [scan EXCEPT !.pc = "loop", !.latest = ans.latest, !.end = ans.latest,
                           !.start = StartBlock(ans.latest, scan.count),
                           !.num = StartBlock(ans.latest, scan.count),
                           !.latestReads = @ + 1]
         ELSE [scan EXCEPT !.pc = "loop", !.latest = ans.latest, !.end = ans.latest,
                           !.latestReads = @ + 1]
    /\ UNCHANGED <<clock, rawd, sigl, txs, last, waiter, ord, cls>>

\* the for loop of line 1542: the next block is requested, or the range is
\* exhausted and the result is returned
ScanLoop ==
    /\ scan.pc = "loop"
    /\ scan' = IF scan.num <= scan.end
               THEN [scan EXCEPT !.pc = "fetching", !.reqs = Append(@, scan.num)]
               ELSE [scan EXCEPT !.pc = "returned"]
    /\ UNCHANGED <<clock, rawd, sigl, txs, last, waiter, ord, cls>>

\* the block requested arrives: lines 1543-1558
ScanBlock(ans) ==
    /\ scan.pc = "fetching"
    /\ scan' =
         IF get_block(ans) # "ok"
         THEN [scan EXCEPT !.pc = "raised", !.err = get_block(ans), !.at = "fetch",
                           !.answered = @ + 1]
         ELSE IF ans.kind = "noheader"
         THEN [scan EXCEPT !.pc = "raised", !.err = "KeyError", !.at = "block",
                           !.answered = @ + 1]
         ELSE [scan EXCEPT !.pc = IF ans.txs = <<>> THEN "loop" ELSE "txs",
                           !.num = IF ans.txs = <<>> THEN NextBlockNum(@) ELSE @,
                           !.ts = ans.timestamp, !.pending = ans.txs,
                           !.blocks = Append(@, [block_number |-> scan.num,
                                                 timestamp |-> ans.timestamp,
                                                 transaction_count |-> Len(ans.txs)]),
                           !.answered = @ + 1, !.served = @ + Len(ans.txs)]
    /\ UNCHANGED <<clock, rawd, sigl, txs, last, waiter, ord, cls>>

\* the body of the loop of line 1560 on the next transaction of the block
ScanTx ==
    /\ scan.pc = "txs"
    /\ LET tx == Head(scan.pending)
           n == NativeStep(scan.trx, tx, scan.num, scan.ts, scan.address)
           t == TokenStep(scan.usdt, scan.stats, tx, scan.num, scan.ts, scan.address)
           more == Tail(scan.pending) # <<>>
       IN scan' =
            IF n.err # "ok"
            THEN [scan EXCEPT !.pc = "raised", !.err = n.err, !.at = "native"]
            ELSE IF t.err # "ok"
            THEN [scan EXCEPT !.pc = "raised", !.err = t.err, !.at = "token", !.trx = n.trx]
            ELSE [scan EXCEPT !.pc = IF more THEN "txs" ELSE "loop",
                              !.num = IF more THEN @ ELSE NextBlockNum(@),
                              !.pending = Tail(@), !.trx = n.trx, !.usdt = t.usdt,
                              !.stats = t.stats,
                              !.cands = IF IsCandidate(tx) = "yes" THEN @ + 1 ELSE @]
    /\ UNCHANGED <<clock, rawd, sigl, txs, last, waiter, ord, cls>>

InitScan ==
    /\ clock = 0
    /\ rawd = [r \in RawRefs |-> IF r = BuilderRaw THEN BuilderInit(0, 0) ELSE NoRaw]
    /\ sigl = [r \in SigRefs |-> <<>>]
    /\ txs = [t \in TxRefs |-> NoTx]
    /\ last = NoCall
    /\ waiter = NoWait
    /\ ord = NoOrder
    /\ scan = NoScan
    /\ cls = NoClass

NextScan ==
    \/ \E start \in BlockNums, end \in BlockNums, address \in Filters :
         ScanCall(start, TRUE, end, address)
    \/ \E start \in BlockNums, address \in Filters : ScanCall(start, FALSE, 0, address)
    \/ \E block_count \in BlockCounts, address \in Filters : ScanRecentCall(block_count, address)
    \/ \E ans \in LatestAnswers : ScanLatest(ans)
    \/ ScanLoop
    \/ \E ans \in BlockAnswers(MaxScanTxs - scan.served) : ScanBlock(ans)
    \/ ScanTx

SpecScan == InitScan /\ [][NextScan]_vars

\* ------------------------------------------------ properties of the scanner

Stats == scan.stats
ScanNextTx == Head(scan.pending)
KnownSelector(tx) == tx.data.sel \in {"a9059cbb", "23b872dd"}

\* the from and to fields a token call's data and owner give, and its amount
FieldFrom(tx) == IF tx.data.sel = "a9059cbb" THEN ToBase58(tx.owner) ELSE AddressOfField(tx.data.a)
FieldTo(tx) == IF tx.data.sel = "a9059cbb" THEN AddressOfField(tx.data.a)
               ELSE AddressOfField(tx.data.b)
FieldAmount(tx) == IF tx.data.sel = "a9059cbb" THEN TokenAmount(tx.data.b, tx.data.c)
                   ELSE TokenAmount(tx.data.c, "")

\* some field of the call data does not decode
DecodeRaises(tx) ==
    FieldFrom(tx).err # "ok" \/ FieldTo(tx).err # "ok" \/ FieldAmount(tx).err # "ok"

\* C13: every token-transfer candidate is counted exactly once: a completed
\* scan has total_transactions = successful_parse + failed_parse = the number
\* of candidates met, and each candidate raises exactly one of the two
\* counters, by one.
ScanCountsOnce ==
    /\ [](scan.pc = "returned" =>
            /\ Stats.total_transactions = Stats.successful_parse + Stats.failed_parse
            /\ Stats.total_transactions = scan.cands)
    /\ [][(scan.pc = "txs" /\ scan'.pc # "raised" /\ ScanTx) =>
            IF IsCandidate(ScanNextTx) = "yes"
            THEN /\ scan'.stats.total_transactions = Stats.total_transactions + 1
                 /\ \/ /\ scan'.stats.successful_parse = Stats.successful_parse + 1
                       /\ scan'.stats.failed_parse = Stats.failed_parse
                    \/ /\ scan'.stats.successful_parse = Stats.successful_parse
                       /\ scan'.stats.failed_parse = Stats.failed_parse + 1
            ELSE scan'.stats = Stats]_vars

\* a completed scan that met one candidate that parsed and one that did not
ScanCountedBoth ==
    /\ scan.pc = "returned"
    /\ Stats.successful_parse = 1 /\ Stats.failed_parse = 1
    /\ Stats.total_transactions = 2

\* C14: a token call whose selector is neither a9059cbb nor 23b872dd, or one
\* of whose fields does not decode, is a parse failure and nothing else:
\* failed_parse grows by one, its txid is appended to failed_txids, the token
\* list and successful_parse stay, and the scan goes on with the rest of the
\* block.
ScanRecordsParseFailure ==
    [][(scan.pc = "txs" /\ IsCandidate(ScanNextTx) = "yes"
          /\ (~KnownSelector(ScanNextTx) \/ DecodeRaises(ScanNextTx)) /\ ScanTx) =>
          /\ scan'.stats.failed_parse = Stats.failed_parse + 1
          /\ scan'.stats.failed_txids = Append(Stats.failed_txids, ScanNextTx.txID)
          /\ scan'.stats.successful_parse = Stats.successful_parse
          /\ scan'.usdt = scan.usdt
          /\ scan'.pc \in {"txs", "loop"}
          /\ scan'.pending = Tail(scan.pending)]_vars

\* a completed scan that recorded the truncated transfer as its only failure
\* and went on to a native transfer
ScanWentOnAfterFailure ==
    /\ scan.pc = "returned"
    /\ Stats.failed_txids = <<"u4">>
    /\ scan.usdt = <<>>
    /\ Len(scan.trx) = 1

\* C15: a token call with a known selector whose fields all decode raises
\* successful_parse by one and leaves failed_parse and failed_txids, filter or
\* no filter; its record is appended to the token list if and only if the
\* filter is unset or is the record's from or to address.
ScanCountsFilteredOut ==
    [][(scan.pc = "txs" /\ IsCandidate(ScanNextTx) = "yes"
          /\ KnownSelector(ScanNextTx) /\ ~DecodeRaises(ScanNextTx) /\ ScanTx) =>
          /\ scan'.stats.successful_parse = Stats.successful_parse + 1
          /\ scan'.stats.failed_parse = Stats.failed_parse
          /\ scan'.stats.failed_txids = Stats.failed_txids
          /\ IF scan.address \in {"None", FieldFrom(ScanNextTx).addr, FieldTo(ScanNextTx).addr}
             THEN /\ Len(scan'.usdt) = Len(scan.usdt) + 1
                  /\ SubSeq(scan'.usdt, 1, Len(scan.usdt)) = scan.usdt
                  /\ scan'.usdt[Len(scan'.usdt)].txid = ScanNextTx.txID
                  /\ scan'.usdt[Len(scan'.usdt)].from = FieldFrom(ScanNextTx).addr
                  /\ scan'.usdt[Len(scan'.usdt)].to = FieldTo(ScanNextTx).addr
             ELSE scan'.usdt = scan.usdt]_vars

\* a completed scan under a filter that parsed two token transfers and kept
\* one, the one sent to the filter's address
ScanFilteredOne ==
    /\ scan.pc = "returned"
    /\ scan.address = "TB"
    /\ Stats.successful_parse = 2 /\ Stats.failed_parse = 0
    /\ Len(scan.usdt) = 1 /\ scan.usdt[1].to = "TB"

\* the block numbers of the range a scan has fixed
RangeLen == IF scan.end >= scan.start THEN scan.end - scan.start + 1 ELSE 0

\* C16: scan_recent_transfers(block_count, address) reads the latest block
\* number once and scans exactly [max(latest - block_count + 1, 0), latest]:
\* start_block is never negative and the latest_block and start_block it
\* returns are the bounds of the blocks requested.
ScanRecentRange ==
    (scan.op = "recent" /\ scan.pc \notin {"idle", "latest"} /\ scan.at # "latest") =>
        /\ scan.latestReads = 1
        /\ scan.start >= 0
        /\ scan.start = IF scan.latest - scan.count + 1 > 0
                        THEN scan.latest - scan.count + 1 ELSE 0
        /\ scan.end = scan.latest
        /\ \A i \in DOMAIN scan.reqs : scan.reqs[i] = scan.start + i - 1
        /\ Len(scan.reqs) <= RangeLen
        /\ scan.pc = "returned" => Len(scan.reqs) = RangeLen

\* a completed scan of more recent blocks than the chain has: it started at
\* block 0
ScanRecentClamped ==
    /\ scan.op = "recent" /\ scan.pc = "returned"
    /\ scan.count > scan.latest + 1
    /\ scan.latest >= 1
    /\ scan.start = 0 /\ Len(scan.blocks) = scan.latest + 1

\* C17: a failure on one block or one transaction does not abort the scan: no
\* scan ends with the exception of a block fetch, a block decode or a
\* transaction decode.
ScanSurvivesFailures ==
    ~(scan.pc = "raised" /\ scan.at \in {"fetch", "block", "native", "token"})

\* C18: blocks start..end are requested in ascending order, one request
\* outstanding at a time and none while a block is being processed; a
\* completed scan holds one header per block number of [start, end], in
\* order, and an empty range fetches nothing and returns empty lists.
ScanSequentialInOrder ==
    /\ \A i \in DOMAIN scan.reqs : scan.reqs[i] = scan.start + i - 1
    /\ Len(scan.reqs) - scan.answered = IF scan.pc = "fetching" THEN 1 ELSE 0
    /\ scan.pc = "fetching" => scan.pending = <<>>
    /\ scan.pc = "returned" =>
         /\ Len(scan.reqs) = RangeLen
         /\ Len(scan.blocks) = RangeLen
         /\ \A i \in DOMAIN scan.blocks : scan.blocks[i].block_number = scan.start + i - 1
    /\ (scan.pc = "returned" /\ scan.start > scan.end) =>
         (scan.reqs = <<>> /\ scan.blocks = <<>> /\ scan.trx = <<>> /\ scan.usdt = <<>>)

\* a completed scan of three blocks, the second of which held transactions
ScanThreeBlocks ==
    /\ scan.pc = "returned" /\ scan.op = "range"
    /\ Len(scan.blocks) = 3
    /\ scan.blocks[2].transaction_count = 2

\* the native transfer the scan is about to examine has both addresses
NativeWellFormed(tx) ==
    /\ tx.type = "TransferContract"
    /\ tx.owner # "absent" /\ tx.to # "absent"
    /\ ToBase58(tx.owner).err = "ok" /\ ToBase58(tx.to).err = "ok"

LastNative == scan.trx[Len(scan.trx)]

\* C27: a native transfer is appended to the native list if and only if the
\* filter is unset or is its from or to address, and the record appended has
\* the four resource fields, each the receipt's value, or 0 when the
\* transaction gives none.
ScanNativeRecorded ==
    [][(scan.pc = "txs" /\ NativeWellFormed(ScanNextTx) /\ ScanTx) =>
          LET tx == ScanNextTx
              hit == MatchesFilter(scan.address, ToBase58(tx.owner).addr, ToBase58(tx.to).addr)
          IN /\ hit => (Len(scan'.trx) = Len(scan.trx) + 1 /\ LastNative'.txid = tx.txID)
             /\ ~hit => scan'.trx = scan.trx
             /\ hit => /\ LastNative'.resource.present
                       /\ \A f \in {"energy_usage", "net_usage", "energy_fee", "net_fee"} :
                             LastNative'.resource[f] = ReceiptGet(tx.ret, f)]_vars

\* the shapes a transaction of a block can have
TxShapes ==
    { ScanTxRec("x1", ty, o, t, 1000000, c, d, r) :
        ty \in {"TransferContract", "TriggerSmartContract", "none"},
        o \in {"TA", "absent"}, t \in {"TB", "absent"},
        c \in {UsdtAddress, "TOther", "absent"},
        d \in {NoData, Data("a9059cbb", "hexB", "0*40", "0*18+0f4240")},
        r \in {Ret(FALSE, {}), Ret(TRUE, {})} }

\* the scan, as it stands and with filter a, would record tx in both lists
RecordedInBoth(tx, a) ==
    /\ NativeStep(scan.trx, tx, scan.num, scan.ts, a).err = "ok"
    /\ NativeStep(scan.trx, tx, scan.num, scan.ts, a).trx # scan.trx
    /\ TokenStep(scan.usdt, scan.stats, tx, scan.num, scan.ts, a).err = "ok"
    /\ TokenStep(scan.usdt, scan.stats, tx, scan.num, scan.ts, a).usdt # scan.usdt

\* C28, as stated: some transaction satisfies both the native and the token
\* classification, and the scan records it in both lists.
ScanSomeTxInBoth ==
    \E tx \in TxShapes \cup ScanTxs, a \in Filters : RecordedInBoth(tx, a)

\* C28, amended: the two checks are applied one after the other to every
\* transaction, but both read the type of the same first contract, so none
\* satisfies both: the step that appends a native record counts no
\* candidate, appends no token record and raises nothing, and the step that
\* counts a candidate leaves the native list as it is.
ScanOneListPerTx ==
    [][/\ Len(scan'.trx) = Len(scan.trx) + 1 =>
            (scan'.usdt = scan.usdt /\ scan'.stats = scan.stats /\ scan'.err = scan.err)
       /\ scan'.stats.total_transactions = scan.stats.total_transactions + 1 =>
            scan'.trx = scan.trx]_vars

\* one block gave a native record and a token record, each in its own list
ScanBothListsOneBlock ==
    /\ scan.pc = "returned"
    /\ Len(scan.trx) = 1 /\ Len(scan.usdt) = 1
    /\ scan.trx[1].block_number = scan.usdt[1].block_number
    /\ scan.trx[1].txid # scan.usdt[1].txid

\* ------------------------------------------------------ the classifier

\* a response arrives and is handed to _handle_api_error
Respond(p) ==
    /\ cls.out = "none"
    /\ cls' = [payload |-> p, out |-> "pending"]
    /\ UNCHANGED <<clock, rawd, sigl, txs, last, waiter, ord, scan>>

\* _handle_api_error(payload) returns ("ok") or raises
Classify ==
    /\ cls.out = "pending"
    /\ cls' = [cls EXCEPT !.out = _handle_api_error(cls.payload)]
    /\ UNCHANGED <<clock, rawd, sigl, txs, last, waiter, ord, scan>>

InitClassify == InitScan

NextClassify ==
    \/ \E p \in Responses : Respond(p)
    \/ Classify

SpecClassify == InitClassify /\ [][NextClassify]_vars

\* a response has a `code` or an `Error` field, at top level or in a nested
\* `result`, or an explicit result: false
Flagged(p) ==
    \/ \E i \in DOMAIN p : p[i].Error \/ p[i].code # "absent"
    \/ p[1].result = "false"

\* C19: the classifier raises nothing exactly for the responses that have no
\* `code` and no `Error` field, at top level or in a nested `result`, and no
\* explicit result: false; every response that has one of these raises.
ClassifierRaisesOnFlagged ==
    cls.out \notin {"none", "pending"} => (cls.out = "ok" <=> ~Flagged(cls.payload))

\* the error kind of a code field
KindOfCode(c) ==
    CASE c = "SIGERROR" -> "BadSignature"
      [] c = "TAPOS_ERROR" -> "TaposError"
      [] c \in {"TRANSACTION_EXPIRATION_ERROR", "TOO_BIG_TRANSACTION_ERROR"} -> "TransactionError"
      [] c = "CONTRACT_VALIDATE_ERROR" -> "ValidationError"
      [] OTHER -> "UnknownError"

\* the rules in their order: Error, then code, then the nested result
RECURSIVE KindFrom(_, _)
KindFrom(p, i) ==
    IF p[i].Error THEN "ApiError"
    ELSE IF p[i].code # "absent" THEN KindOfCode(p[i].code)
    ELSE IF p[i].result = "dict" /\ i < Len(p) THEN KindFrom(p, i + 1)
    ELSE "ok"

\* C26: the classifier gives every response the one error kind of the rules:
\* ApiError for an Error field, before any code; else the kind of its code;
\* else what the rules give for the nested result; the recursion ends.
ClassifierFollowsRules ==
    cls.out \notin {"none", "pending"} => cls.out = KindFrom(cls.payload, 1)

\* ---------------------------------------------------- properties of wait

Polls == waiter.polls
LastPoll == Polls[Len(Polls)]

\* C1, as stated: by the time the clock reaches end_time the call is over: no
\* poll is in progress and no sleep is still running once clock >= end_time.
WaitOverByDeadline ==
    (waiter.pc = "polling" \/ (waiter.pc = "sleeping" /\ waiter.wake > clock))
        => clock < waiter.end_time

\* C1, amended: no poll is issued once the clock has reached end_time: every
\* poll of the call was issued at a clock reading strictly before end_time.
WaitNoPollAfterDeadline ==
    \A i \in DOMAIN Polls : Polls[i].at < waiter.end_time

\* a call that polled, overran end_time in a poll or a sleep, and then raised
WaitOverran ==
    /\ waiter.pc = "raised" /\ waiter.err = "timeout"
    /\ Len(Polls) >= 1
    /\ clock > waiter.end_time

\* C2: wait has issued at least one query when it raises the
\* not-found-within-deadline error.
WaitPollsBeforeTimeout ==
    (waiter.pc = "raised" /\ waiter.err = "timeout") => Len(Polls) >= 1

\* C3: wait stops at the first poll whose outcome is not 'not found': every
\* poll but the last ended 'not found'; a returned call's last poll gave the
\* receipt, a call that raised another error than the timeout raised its last
\* poll's error, and only after 'not found' does the call sleep, test the
\* deadline or time out.
WaitStopsAtFirstAnswer ==
    /\ \A i \in 1 .. Len(Polls) - 1 : Polls[i].out = "TransactionNotFound"
    /\ waiter.pc = "polling" => LastPoll.out = "pending"
    /\ waiter.pc = "returned" => LastPoll.out = "receipt"
    /\ (waiter.pc = "raised" /\ waiter.err # "timeout") =>
          /\ LastPoll.out = waiter.err
          /\ waiter.err \notin {"receipt", "TransactionNotFound", "pending"}
    /\ waiter.pc = "sleeping" => LastPoll.out = "TransactionNotFound"
    /\ (waiter.pc = "test" \/ (waiter.pc = "raised" /\ waiter.err = "timeout")) =>
          \A i \in DOMAIN Polls : Polls[i].out = "TransactionNotFound"

\* a classified API error raised by the second poll, after one 'not found'
WaitErrorPropagated ==
    /\ waiter.pc = "raised" /\ waiter.err = "ApiError"
    /\ Len(Polls) = 2

\* C20: result() on a handle with no method descriptor fails at once with
\* TypeError and sends no query: wait is not called, nothing is polled and
\* nothing sleeps.
ResultNeedsMethod ==
    (waiter.via = "result" /\ waiter.method = "None") =>
        /\ waiter.res.kind = "TypeError"
        /\ waiter.pc = "notcalled"
        /\ Polls = <<>> /\ waiter.wake = 0 /\ waiter.end_time = 0

\* result() has just raised TypeError on a handle of a plain transfer, the
\* clock still at the time of the call
ResultRefused ==
    /\ waiter.via = "result" /\ waiter.method = "None"
    /\ waiter.res.kind = "TypeError"
    /\ clock = 0

\* C21: result() on a receipt with result FAILED and receipt.result REVERT
\* whose contractResult is absent, empty or has a first entry of at most 72
\* hex characters does not attempt the string decode: it raises TvmError
\* with the message as it was (resMessage, or the status FAILED without
\* one), and returns no value.
ResultShortRevertUndecoded ==
    (waiter.via = "result" /\ waiter.pc = "returned"
       /\ waiter.rc.failed /\ waiter.rc.revert
       /\ waiter.rc.cr \in {"absent", "empty", "short"}) =>
        /\ waiter.res.kind = "TvmError"
        /\ ~waiter.res.tried /\ ~waiter.res.decoded
        /\ waiter.res.msg = IF waiter.rc.resMessage THEN "resMessage" ELSE "FAILED"

\* result() has just raised TvmError with the status as its message, on a
\* reverted call with a short contractResult and no resMessage, found at the
\* second poll
ResultShortRevert ==
    /\ waiter.via = "result" /\ waiter.pc = "returned"
    /\ waiter.rc = [failed |-> TRUE, resMessage |-> FALSE, revert |-> TRUE, cr |-> "short"]
    /\ waiter.res.kind = "TvmError" /\ waiter.res.msg = "FAILED"
    /\ Len(Polls) = 2

\* wait is running
WaitActive == waiter.pc \in {"test", "polling", "sleeping"}

\* the modelled clock has stopped short of the time wait is waiting for: the
\* deadline while it polls, the end of the sleep while it sleeps
ClockRanOut ==
    /\ clock + TickMs > MaxClock
    /\ \/ waiter.pc = "sleeping" /\ clock < waiter.wake
       \/ waiter.pc \in {"test", "polling"} /\ clock < waiter.end_time

\* C25: wait with a finite timeout terminates, returning a receipt or
\* raising, as long as the clock keeps advancing and every node query
\* returns, whatever the node answers and however many polls it takes.
WaitTerminates ==
    WaitActive ~> (waiter.pc \in {"returned", "raised"} \/ ClockRanOut)

\* the node answered not found to every poll of a full record, and wait gave
\* up at the deadline
WaitGaveUp ==
    /\ waiter.pc = "raised" /\ waiter.err = "timeout"
    /\ Len(waiter.polls) = MaxPolls
    /\ \A i \in 1 .. MaxPolls : waiter.polls[i].out = "TransactionNotFound"

\* ------------------------------------------ properties of the lifecycle

Tx == txs[Orig]
Sigs == sigl[Tx.sig]
Unauthorized(k) == Tx.perm.kind = "dict" /\ ~KeyInPermission(Tx.perm, AddrOf(k))
ExpiredError == "AssertionError: expired"
NoTxidError == "AssertionError: txID not calculated"

\* the errors of the shared classifier
ClassifiedErrors == {"ApiError", "BadSignature", "TaposError", "TransactionError",
                     "ValidationError", "UnknownError"}

\* C4, as stated: sign with a key that is not among the keys of a non-None
\* permission always fails with BadKey and leaves the transaction as it was.
SignUnauthorizedIsBadKey ==
    [][\A k \in Keys : (Tx.live /\ Unauthorized(k) /\ Sign(Orig, k)) =>
          (last'.err = "BadKey" /\ sigl' = sigl /\ txs' = txs /\ rawd' = rawd)]_vars

\* C4, amended: on a validated transaction that has not expired, sign with a
\* key that is not among the keys of a non-None permission fails with BadKey;
\* expired or not, the call fails and leaves the signature list, txid,
\* raw_data and permission as they were.
SignUnauthorizedFails ==
    [][\A k \in Keys : (Tx.live /\ Unauthorized(k) /\ Sign(Orig, k)) =>
          /\ (Tx.txid # "" /\ ~is_expired(Tx)) => last'.err = "BadKey"
          /\ last'.err # "ok"
          /\ sigl' = sigl /\ txs' = txs /\ rawd' = rawd]_vars

\* a sign by a key outside the permission, on an unexpired transaction that
\* already holds a signature, has just failed with BadKey
SignRejectedKey ==
    /\ last.op = "sign" /\ last.err = "BadKey"
    /\ Unauthorized(last.key)
    /\ ~is_expired(Tx)
    /\ Len(Sigs) >= 1

\* C5: sign on a validated transaction whose expiration has been reached
\* (now >= expiration) fails with the expired error, whatever the key and the
\* permission, and appends no signature.
SignExpiredFails ==
    [][\A k \in Keys : (Tx.live /\ Tx.txid # "" /\ is_expired(Tx) /\ Sign(Orig, k)) =>
          (last'.err = ExpiredError /\ sigl' = sigl)]_vars

\* a sign by an authorized key has just failed as expired, the clock reading
\* exactly the expiration
SignExpiredAtExpiration ==
    /\ last.op = "sign" /\ last.err = ExpiredError
    /\ Tx.perm.kind = "dict" /\ KeyInPermission(Tx.perm, AddrOf(last.key))
    /\ clock = rawd[Tx.raw].expiration

\* C6: sign fails, and appends nothing, whenever the txid is empty.
SignUnvalidatedFails ==
    [][\A k \in Keys : (Tx.live /\ Tx.txid = "" /\ Sign(Orig, k)) =>
          (last'.err = NoTxidError /\ sigl' = sigl)]_vars

\* a sign has just failed on a transaction whose txid an update left empty
SignAfterFailedUpdate ==
    /\ last.op = "sign" /\ last.err = NoTxidError
    /\ Tx.live /\ Tx.txid = ""
    /\ rawd[Tx.raw].timestamp > 0

\* C7: build() yields a Transaction with a non-empty txid if and only if the
\* weight-check answer has a `transaction` section; when it has none no
\* Transaction is returned: the call raises a classified API error or
\* TransactionError.
BuildTxidIffSection ==
    [][\A a \in AnchorOutcomes, w \in SignWeightAnswers :
          (a.err = "ok" /\ w.kind # "raise" /\ last'.op = "build" /\ build(Orig, a, w)) =>
             /\ (txs'[Orig].live /\ txs'[Orig].txid # "") <=> w.kind = "tx"
             /\ w.kind = "notx" =>
                  (~txs'[Orig].live /\ last'.err \in ClassifiedErrors)]_vars

\* a build has just failed on an answer with no `transaction` section and
\* nothing for the classifier to raise
BuildRejected ==
    /\ last.op = "build" /\ last.err = "TransactionError"
    /\ Getsignweight \in {last.rpcs[i] : i \in DOMAIN last.rpcs}
    /\ ~Tx.live

\* C8: from_json(t.to_json()) of a transaction with a non-empty txid gives a
\* transaction with the same txid, raw_data, signatures and permission, and
\* sends no getsignweight request.
JsonRoundTrip ==
    [][\A copy \in BOOLEAN :
          (Tx.live /\ Tx.txid # "" /\ last'.op = "from_json" /\ from_json(Copy, Orig, copy)) =>
             /\ last'.err = "ok" /\ txs'[Copy].live
             /\ JsonText(txs'[Copy], rawd', sigl') = JsonText(Tx, rawd, sigl)
             /\ last'.rpcs = <<>>]_vars

\* a signed transaction under a permission has just been reconstructed
JsonReconstructed ==
    /\ last.op = "from_json" /\ last.err = "ok"
    /\ txs[Copy].live /\ txs[Copy].perm.kind = "dict"
    /\ Len(sigl[txs[Copy].sig]) >= 1
    /\ txs[Copy].raw # Tx.raw

\* C30: from_json given the JSON string of to_json() of a transaction with a
\* non-empty txid parses it and gives the transaction it gives for the dict:
\* the same txid, raw_data, signatures and permission, and no failure.
FromJsonAcceptsText ==
    [][(Tx.live /\ Tx.txid # "" /\ from_json_text(Copy, Orig)) =>
          /\ last'.err = "ok" /\ txs'[Copy].live
          /\ JsonText(txs'[Copy], rawd', sigl') = JsonText(Tx, rawd, sigl)]_vars

\* C10: broadcast submits only a validated transaction (non-empty txid) that
\* has been signed at least once.  broadcast leaves the transaction as it
\* is, so what was submitted is what the transaction holds.
BroadcastOnlySigned ==
    last.op = "broadcast" => (txs[last.tx].txid # "" /\ Len(sigl[txs[last.tx].sig]) >= 1)

\* whether sign accepts key k under the transaction's permission
Authorized(k) == Tx.perm.kind = "None" \/ (Tx.perm.kind = "dict" /\ KeyInPermission(Tx.perm, AddrOf(k)))

\* C11, as stated: over every operation on a transaction the number of
\* collected signatures never decreases, a successful sign raises it by
\* exactly one, and sign on a validated unexpired transaction succeeds with
\* any key.
SigCountNeverDecreases ==
    [][/\ (Tx.live /\ txs'[Orig].live) => Len(sigl'[txs'[Orig].sig]) >= Len(Sigs)
       /\ \A k \in Keys : (Tx.live /\ Sign(Orig, k)) =>
             /\ last'.err = "ok" => Len(sigl'[txs'[Orig].sig]) = Len(Sigs) + 1
             /\ (Tx.txid # "" /\ ~is_expired(Tx)) => last'.err = "ok"]_vars

\* C11, amended: under sign alone the number of collected signatures never
\* decreases: a sign that fails leaves it, a sign that succeeds raises it by
\* exactly one, and sign on a validated unexpired transaction succeeds with
\* every key the permission authorizes (any key when the permission is
\* None), whether or not that key has signed before.
SignCountGrowsByOne ==
    [][\A k \in Keys : (Tx.live /\ Sign(Orig, k)) =>
          /\ txs'[Orig] = Tx
          /\ last'.err = "ok" => Len(sigl'[Tx.sig]) = Len(Sigs) + 1
          /\ last'.err # "ok" => sigl' = sigl
          /\ (Tx.txid # "" /\ ~is_expired(Tx) /\ Authorized(k)) => last'.err = "ok"]_vars

\* the same key has just signed a second time: two equal signatures
SignedTwiceSameKey ==
    /\ last.op = "sign" /\ last.err = "ok"
    /\ Tx.live /\ Len(Sigs) = 2 /\ Sigs[1] = Sigs[2]
    /\ Tx.perm.kind = "dict"

\* C12: update returns normally only when the weight-check answer for the
\* re-anchored body has a `transaction` section, and then with the answer's
\* txid, its permission (None if absent) and an empty signature list; when
\* the section is absent update raises an error.
UpdateRevalidates ==
    [][\A a \in AnchorOutcomes, w \in SignWeightAnswers :
          (Tx.live /\ a.err = "ok" /\ w.kind # "raise" /\ last'.op = "update"
             /\ update(Orig, a, w)) =>
             /\ last'.err = "ok" =>
                  /\ w.kind = "tx"
                  /\ txs'[Orig].txid = w.txID /\ txs'[Orig].perm = w.perm
                  /\ sigl'[txs'[Orig].sig] = <<>>
             /\ w.kind = "notx" => last'.err # "ok"]_vars

\* C23, as stated: build() sends exactly one request to the node, whatever
\* the node answers.
BuildOneRoundTrip == last.op = "build" => Len(last.rpcs) = 1

\* C23, amended: build() sends wallet/getnodeinfo, walletsolidity/getnowblock
\* too when that request failed, and then wallet/getsignweight: two or three
\* requests for every transaction it returns, and two when it raises because
\* neither request gave an anchor.
BuildRoundTrips ==
    last.op = "build" =>
        \/ last.rpcs = <<Getnodeinfo, Getsignweight>>
        \/ last.rpcs = <<Getnodeinfo, SolidNowblock, Getsignweight>>
        \/ last.rpcs = <<Getnodeinfo, SolidNowblock>> /\ last.err = "ProviderError" /\ ~Tx.live

\* build() returned a transaction after the fallback: three requests
BuiltAfterFallback ==
    /\ last.op = "build" /\ last.err = "ok" /\ Tx.live
    /\ last.rpcs = <<Getnodeinfo, SolidNowblock, Getsignweight>>

\* C24: every raw body has expiration = timestamp + window, the window being
\* the default one or the one the caller gave the builder's setter, however
\* the clock advanced between the calls.
RawWindowExact ==
    \A r \in RawRefs :
        rawd[r] # NoRaw => rawd[r].expiration - rawd[r].timestamp \in Windows

\* C29: an update() that raises leaves the transaction without txid and
\* signatures, or with the raw_data it had before the call.
UpdateAllOrNothing ==
    [][(Tx.live /\ last'.op = "update" /\ last'.err # "ok") =>
          \/ txs'[Orig].txid = "" /\ sigl'[txs'[Orig].sig] = <<>>
          \/ rawd'[txs'[Orig].raw] = rawd[Tx.raw]]_vars

\* ------------------------------------------------- two objects, one builder

\* The transaction under study is built and signed while the builder that
\* produced it is used again, a second transaction is built from it, updated
\* and signed, or reconstructed from the first one's to_json(), all within
\* one reading of the clock.
NextOwn ==
    \/ Build(Orig)
    \/ \E k \in Keys : Sign(Orig, k)
    \/ \E w \in Windows : expiration(w)
    \/ Build(Copy)
    \/ Update(Copy)
    \/ \E k \in Keys : Sign(Copy, k)
    \/ \E copy \in BOOLEAN : from_json(Copy, Orig, copy)

SpecOwn == Init /\ [][NextOwn]_vars

\* C22: a transaction owns its raw body and its signature list: a call on
\* the builder or on another transaction (a setter, a second build, update
\* or sign of the other transaction, from_json) leaves the raw_data and the
\* signatures of the transaction as they were.
OwnsBodyAndSignatures ==
    [][(Tx.live /\ last'.tx # Orig) =>
          (rawd'[Tx.raw] = rawd[Tx.raw] /\ sigl'[Tx.sig] = sigl[Tx.sig])]_vars

\* ------------------------------------------------------ two signing orders

\* the raw_data of a transaction built at time 0
BuiltRaw == [BuilderInit(0, 0) EXCEPT !.ref_block_bytes = RefBlockBytes("id1"),
                                      !.ref_block_hash = RefBlockHash("id1")]

\* A validated transaction and its reconstruction from its JSON text, with a
\* list of its own; keys a and b are to sign the first as a, b and the second
\* as b, a.
InitOrder ==
    /\ clock = 0
    /\ rawd = [r \in RawRefs |-> BuiltRaw]
    /\ sigl = [r \in SigRefs |-> <<>>]
    /\ \E i \in TxIdSet, p \in NodePerms :
         txs = [t \in TxRefs |-> [live |-> TRUE,
                                   raw |-> IF t = Orig THEN "d1" ELSE "d2",
                                   sig |-> IF t = Orig THEN "l1" ELSE "l2",
                                   txid |-> i, perm |-> p]]
    /\ last = NoCall
    /\ waiter = NoWait
    /\ \E a, b \in Keys : ord = [NoOrder EXCEPT !.a = a, !.b = b]
    /\ scan = NoScan
    /\ cls = NoClass

\* the key that signs transaction t next
NextKey(t) == IF (t = Orig) = (ord.n[t] = 0) THEN ord.a ELSE ord.b

\* the next sign() of transaction t's order; ord counts the signs that succeeded
OrderSign(t) ==
    /\ ord.n[t] < 2
    /\ sign(t, NextKey(t))
    /\ ord' = [ord EXCEPT !.n[t] = IF SignCheck(txs[t], NextKey(t)) = "ok" THEN @ + 1 ELSE @]

NextOrder ==
    \/ Tick
    \/ OrderSign(Orig)
    \/ OrderSign(Copy)

SpecOrder == InitOrder /\ [][NextOrder]_vars

SigSet(t) == {sigl[txs[t].sig][i] : i \in DOMAIN sigl[txs[t].sig]}

\* C9: sign(A) then sign(B) ends with the same set of signatures as sign(B)
\* then sign(A), both orders run on the same validated, unexpired transaction.
SignOrderIrrelevant ==
    (ord.n[Orig] = 2 /\ ord.n[Copy] = 2) => SigSet(Orig) = SigSet(Copy)

\* both orders done with two different keys of a two-key permission: the
\* lists differ, the sets do not
SignedBothOrders ==
    /\ ord.n[Orig] = 2 /\ ord.n[Copy] = 2
    /\ ord.a # ord.b
    /\ txs[Orig].perm = PermTwo
    /\ sigl[txs[Orig].sig] # sigl[txs[Copy].sig]
====
